---- MODULE Spec2Model ----
(***************************************************************************)
(* The per-user encrypted credential vault: CredentialManager (cipher and  *)
(* schema validation) and CredentialRepository (the user_credentials       *)
(* table and its operations).                                              *)
(*                                                                         *)
(* The table is a set of rows keyed by the primary key id; it carries no   *)
(* unique constraint on (user_id, service_name), as in the ORM model.  A   *)
(* Fernet token is the serialized payload plus whether it still            *)
(* authenticates.  Spec runs the repository methods that read or write one *)
(* pair, one call at a time, and SpecReads adds the listings of a user;    *)
(* SpecConc runs add_credential in several sessions, statement by          *)
(* statement, a write becoming visible to the others at its commit.        *)
(* SpecTools runs the OSHA tools of two users against a remote API that    *)
(* answers with any status; SpecCipher calls the cipher directly, with     *)
(* tokens altered in between; SpecStartup starts the process with and      *)
(* without a key; SpecUsers lists the records of two users while the       *)
(* clock advances.  SpecScenario stores, fetches, marks used and lists,    *)
(* every call at a later time; SpecSchema stores payloads of every shape;  *)
(* SpecIsolation calls the methods for three pairs; SpecLost and SpecHeal  *)
(* run add_credential and get_credential_decrypted statement by statement  *)
(* beside calls of other sessions; SpecBot is the add-credential           *)
(* conversation of one chat; SpecLazy has the handlers construct their     *)
(* repositories in a process that builds the cipher on first use.          *)
(***************************************************************************)
EXTENDS Integers, Sequences, FiniteSets, TLC

\* ------------------------------------------------------------- bounds
\* Largest value of the wall clock.
MaxClock == 1
\* Largest primary key the id sequence hands out (bounds the inserts of a run).
MaxId == 2
\* Number of lookups of the key in the environment in one behaviour.
MaxGetenv == 3

\* Number of calls of a behaviour in which every call takes time.
MaxCalls == 4

\* ------------------------------------------------------------- inputs
Users == {41, 42}
Services == {"osha_api", "my_service"}
AllPairs == Users \X Services
\* The (user_id, service_name) pairs the callers operate on: one user with a
\* service that declares a schema and a service that declares none.
Pairs == { <<42, "osha_api">>, <<42, "my_service">> }
\* Concurrent callers (one session each).
Procs == {"p1", "p2"}
CredentialTypes == {"api_key"}
\* The value of CREDENTIAL_ENCRYPTION_KEY when it is set.
EncryptionKey == "k1"
\* Two payloads: the first satisfies the schema of osha_api, the second misses
\* its api_key; the service without a schema accepts both.
Payloads == { "api_key" :> "abc123", "username" :> "x" }

\* A nullable column: << >> is NULL, <<v>> is the value v.
NULL == << >>
Some(v) == <<v>>

\* ------------------------------------------------------------- CredentialManager
\* Order in which json.dumps writes the keys of a payload.
KeyOrder == <<"api_key", "username", "password">>

formats ==
    [ osha_api       |-> <<"api_key">>,
      dol_efast      |-> <<"username", "password">>,
      pacer          |-> <<"username", "password">>,
      fec_api        |-> <<"api_key">>,
      opencorporates |-> <<"api_key">>,
      newsapi        |-> <<"api_key">>,
      propublica     |-> <<"api_key">>,
      sam_gov        |-> <<"api_key">> ]

\* Mutant of validate_credential_format: compares the number of keys only.
validate_credential_format_CountsKeys(service_name, credential_data) ==
    IF service_name \notin DOMAIN formats
    THEN TRUE
    ELSE Cardinality(DOMAIN credential_data) = Len(formats[service_name])

\* Mutant of validate_credential_format: a service without a schema must still
\* be given a field.
validate_credential_format_RefusesEmpty(service_name, credential_data) ==
    IF service_name \notin DOMAIN formats
    THEN DOMAIN credential_data # {}
    ELSE LET expected_keys == formats[service_name]
         IN  \A i \in DOMAIN expected_keys : expected_keys[i] \in DOMAIN credential_data

validate_credential_format(service_name, credential_data) ==
    IF service_name \notin DOMAIN formats
    THEN TRUE
    ELSE LET expected_keys == formats[service_name]
         IN  \A i \in DOMAIN expected_keys : expected_keys[i] \in DOMAIN credential_data

\* Mutant of json_dumps: the last member of the object is not written.
json_dumps_DropsLastMember(d) ==
    LET ks == SelectSeq(KeyOrder, LAMBDA k : k \in DOMAIN d)
    IN  [i \in 1..(Len(ks) - 1) |-> <<ks[i], d[ks[i]]>>]

\* json.dumps of a mapping of strings: the list of its (key, value) members.
json_dumps(d) ==
    LET ks == SelectSeq(KeyOrder, LAMBDA k : k \in DOMAIN d)
    IN  [i \in DOMAIN ks |-> <<ks[i], d[ks[i]]>>]

\* json.loads of an object: the mapping of its members, the last one of a key winning.
json_loads(s) ==
    [k \in {s[i][1] : i \in DOMAIN s} |->
        s[CHOOSE i \in DOMAIN s :
            s[i][1] = k /\ \A j \in DOMAIN s : s[j][1] = k => j <= i][2]]

\* A Fernet token: the serialized payload under the key, and whether the
\* token still authenticates (intact) or has been corrupted in storage.
encrypt_credential(credential_data) ==
    [body |-> json_dumps(credential_data), intact |-> TRUE]

\* Mutant of decrypt_credential: the token is not authenticated before it is parsed.
decrypt_credential_SkipsAuthentication(encrypted_data) ==
    [ok |-> TRUE, data |-> json_loads(encrypted_data.body)]

\* ok = FALSE is the ValueError of a failed decryption.
decrypt_credential(encrypted_data) ==
    IF encrypted_data.intact
    THEN [ok |-> TRUE, data |-> json_loads(encrypted_data.body)]
    ELSE [ok |-> FALSE]

\* ------------------------------------------------------------- state
VARIABLES
    rows,            \* the user_credentials table: a set of UserCredential rows
    next_id,         \* next value of the primary-key sequence
    now,             \* the wall clock (func.now() / datetime.utcnow())
    last,            \* the last repository call: operation, arguments and outcome
    last_added,      \* per pair, the payload of the last add_credential that returned
    proc,            \* per concurrent caller, its position in add_credential and its locals
    last_committed,  \* per pair, the payload of the add_credential that committed last
    env_key,         \* CREDENTIAL_ENCRYPTION_KEY in the environment, NULL when not set
    credential_manager, \* the module-level singleton _credential_manager, NULL until built
    phase,           \* the process: "starting", "serving" or "failed"
    fsm,             \* the FSMContext of the user's chat: its state and its data
    getenv_calls     \* how often CREDENTIAL_ENCRYPTION_KEY has been looked up

vars == <<rows, next_id, now, last, last_added, proc, last_committed,
          env_key, credential_manager, phase, fsm, getenv_calls>>

UserCredential(id, user_id, service_name, credential_type, encrypted_credentials) ==
    [ id |-> id,
      user_id |-> user_id,
      service_name |-> service_name,
      credential_type |-> credential_type,
      encrypted_credentials |-> encrypted_credentials,
      is_active |-> TRUE,
      created_at |-> now,
      updated_at |-> NULL,
      last_used |-> NULL ]

Idle == [pc |-> "idle"]

\* Mutant of CredentialManager: the check for a missing key is left out.
CredentialManager_NoKeyCheck(key) ==
    [ok |-> TRUE, cm |-> [cipher |-> key]]

\* CredentialManager(): the cipher over the key of the environment; ok = FALSE
\* is the ValueError raised when the key is not set.
CredentialManager(key) ==
    IF key = NULL
    THEN [ok |-> FALSE]
    ELSE [ok |-> TRUE, cm |-> [cipher |-> key[1]]]

\* The lookups of the key one get_credential_manager() makes: the one of
\* CredentialManager(), when the singleton is not built.
getenv(singleton) ==
    IF singleton = NULL THEN 1 ELSE 0

\* get_credential_manager(): the singleton, built on first use.
get_credential_manager(singleton, key) ==
    IF singleton = NULL
    THEN CredentialManager(key)
    ELSE [ok |-> TRUE, cm |-> singleton[1]]

\* The empty table, before any call.
InitStore ==
    /\ rows = {}
    /\ next_id = 1
    /\ now = 0
    /\ last = [op |-> "init"]
    /\ last_added = [pr \in AllPairs |-> NULL]
    /\ proc = [p \in Procs |-> Idle]
    /\ last_committed = [pr \in AllPairs |-> NULL]
    /\ fsm = [state |-> NULL, data |-> << >>]

\* A CredentialRepository has been constructed over the empty table: the key
\* is set and the singleton is built.
Init ==
    /\ InitStore
    /\ env_key = Some(EncryptionKey)
    /\ credential_manager = Some(CredentialManager(env_key).cm)
    /\ phase = "serving"
    /\ getenv_calls = getenv(NULL)

\* Rows of one (user_id, service_name) pair.
PairRows(rs, user_id, service_name) ==
    {r \in rs : r.user_id = user_id /\ r.service_name = service_name}

ActiveRows(rs, user_id, service_name) ==
    {r \in PairRows(rs, user_id, service_name) : r.is_active}

\* The state of a pair: absent (no row), active (a row with is_active), inactive.
Lifecycle(rs, user_id, service_name) ==
    IF PairRows(rs, user_id, service_name) = {} THEN "absent"
    ELSE IF ActiveRows(rs, user_id, service_name) # {} THEN "active"
    ELSE "inactive"

\* Mutant of get_credential: the SELECT has no is_active condition.
get_credential_NoActiveFilter(rs, user_id, service_name) ==
    LET found == PairRows(rs, user_id, service_name)
    IN  IF found = {} THEN [kind |-> "None"]
        ELSE IF Cardinality(found) = 1
             THEN [kind |-> "row", row |-> CHOOSE r \in found : TRUE]
             ELSE [kind |-> "MultipleResultsFound"]

\* select(UserCredential).where(user_id, service_name, is_active).scalar_one_or_none()
get_credential(rs, user_id, service_name) ==
    LET found == {r \in PairRows(rs, user_id, service_name) : r.is_active}
    IN  IF found = {} THEN [kind |-> "None"]
        ELSE IF Cardinality(found) = 1
             THEN [kind |-> "row", row |-> CHOOSE r \in found : TRUE]
             ELSE [kind |-> "MultipleResultsFound"]

\* Mutant of AddUpdateRow: the UPDATE stamps created_at as well.
AddUpdateRow_RestampsCreatedAt(r, credential_type, encrypted) ==
    [r EXCEPT !.credential_type = credential_type,
              !.encrypted_credentials = encrypted,
              !.is_active = TRUE,
              !.created_at = now,
              !.updated_at = Some(now)]

\* The values(...) of add_credential's UPDATE applied to one row.
AddUpdateRow(r, credential_type, encrypted) ==
    [r EXCEPT !.credential_type = credential_type,
              !.encrypted_credentials = encrypted,
              !.is_active = TRUE,
              !.updated_at = Some(now)]

\* update(UserCredential).where(user_id, service_name).values(...) of add_credential
AddUpdateStmt(rs, user_id, service_name, credential_type, encrypted) ==
    { IF r.user_id = user_id /\ r.service_name = service_name
      THEN AddUpdateRow(r, credential_type, encrypted)
      ELSE r : r \in rs }

\* Mutant of DeactivateStmt: the UPDATE stamps updated_at and forgets is_active.
DeactivateStmt_KeepsActive(rs, user_id, service_name) ==
    { IF r.user_id = user_id /\ r.service_name = service_name
      THEN [r EXCEPT !.updated_at = Some(now)]
      ELSE r : r \in rs }

\* Mutant of DeactivateStmt: deactivation deletes the rows of the pair.
DeactivateStmt_Deletes(rs, user_id, service_name) ==
    rs \ PairRows(rs, user_id, service_name)

\* Mutant of DeactivateStmt: the WHERE clause has the user_id only.
DeactivateStmt_EveryService(rs, user_id, service_name) ==
    { IF r.user_id = user_id
      THEN [r EXCEPT !.is_active = FALSE, !.updated_at = Some(now)]
      ELSE r : r \in rs }

\* update(UserCredential).where(user_id, service_name).values(is_active=False, updated_at=...)
DeactivateStmt(rs, user_id, service_name) ==
    { IF r.user_id = user_id /\ r.service_name = service_name
      THEN [r EXCEPT !.is_active = FALSE, !.updated_at = Some(now)]
      ELSE r : r \in rs }

\* Mutant of RemoveStmt: the DELETE takes the active rows of the pair only.
RemoveStmt_ActiveOnly(rs, user_id, service_name) ==
    rs \ ActiveRows(rs, user_id, service_name)

\* delete(UserCredential).where(user_id, service_name)
RemoveStmt(rs, user_id, service_name) ==
    rs \ PairRows(rs, user_id, service_name)

\* Mutant of LastUsedStmt: the UPDATE stamps updated_at as well.
LastUsedStmt_StampsUpdatedAt(rs, user_id, service_name) ==
    { IF r.user_id = user_id /\ r.service_name = service_name
      THEN [r EXCEPT !.last_used = Some(now), !.updated_at = Some(now)]
      ELSE r : r \in rs }

\* update(UserCredential).where(user_id, service_name).values(last_used=...)
LastUsedStmt(rs, user_id, service_name) ==
    { IF r.user_id = user_id /\ r.service_name = service_name
      THEN [r EXCEPT !.last_used = Some(now)]
      ELSE r : r \in rs }

\* Mutant of rowcount: the statement counts every row of the table.
rowcount_WholeTable(rs, user_id, service_name) ==
    Cardinality(rs)

\* Mutant of rowcount: the statement counts the active rows of the pair only.
rowcount_ActiveOnly(rs, user_id, service_name) ==
    Cardinality(ActiveRows(rs, user_id, service_name))

\* result.rowcount of an UPDATE or DELETE with WHERE user_id, service_name
rowcount(rs, user_id, service_name) ==
    Cardinality(PairRows(rs, user_id, service_name))

\* Mutant of AllCredentialsStmt: the is_active filter is left out.
AllCredentialsStmt_NoActiveFilter(rs, user_id, active_only) ==
    {r \in rs : r.user_id = user_id}

\* select(UserCredential).where(user_id [, is_active]): the rows get_all_credentials returns
AllCredentialsStmt(rs, user_id, active_only) ==
    {r \in rs : r.user_id = user_id /\ (active_only => r.is_active)}

\* Mutant of OrderByCreatedAtDesc: the rows come back oldest first.
OrderByCreatedAtDesc_Ascending(found) ==
    { l \in [1..Cardinality(found) -> found] :
        \A i, j \in DOMAIN l :
            i < j => l[i] # l[j] /\ l[i].created_at <= l[j].created_at }

\* stmt.order_by(UserCredential.created_at.desc()) and list(result.scalars().all()):
\* the lists a result set may come back as, newest first, rows of equal
\* created_at in either order.
OrderByCreatedAtDesc(found) ==
    { l \in [1..Cardinality(found) -> found] :
        \A i, j \in DOMAIN l :
            i < j => l[i] # l[j] /\ l[i].created_at >= l[j].created_at }

\* The record of a call: what was called, the pair's state before it, the
\* collaborator calls it made (calls) and its outcome (ret).
Call(op, user_id, service_name, calls, ret) ==
    [ op |-> op, user_id |-> user_id, service_name |-> service_name,
      before |-> Lifecycle(rows, user_id, service_name),
      calls |-> calls, ret |-> ret ]

\* The process and its configuration.
boot == <<env_key, credential_manager, phase, getenv_calls>>

conc == <<proc, last_committed, boot, fsm>>

\* ------------------------------------------------------------- operations
\* Each repository method run by one caller at a time, start to return.
add_credential(user_id, service_name, credential_type, credential_data) ==
    IF ~validate_credential_format(service_name, credential_data)
    THEN /\ last' = Call("add_credential", user_id, service_name,
                         <<"validate">>,
                         [kind |-> "ValueError", data |-> credential_data])
         /\ UNCHANGED <<rows, next_id, now, last_added, conc>>
    ELSE
    LET encrypted == encrypt_credential(credential_data)
        existing == get_credential(rows, user_id, service_name)
    IN  CASE existing.kind = "MultipleResultsFound" ->
               /\ last' = Call("add_credential", user_id, service_name,
                               <<"validate", "encrypt", "select">>,
                               [kind |-> "MultipleResultsFound", data |-> credential_data])
               /\ UNCHANGED <<rows, next_id, now, last_added, conc>>
          [] existing.kind = "row" ->
               LET updated == AddUpdateStmt(rows, user_id, service_name,
                                            credential_type, encrypted)
                   fetched == get_credential(updated, user_id, service_name)
               IN  /\ rows' = updated
                   /\ last' = Call("add_credential", user_id, service_name,
                                   <<"validate", "encrypt", "select", "update",
                                     "commit", "select">>,
                                   fetched @@ [data |-> credential_data])
                   /\ last_added' =
                        IF fetched.kind = "row"
                        THEN [last_added EXCEPT ![<<user_id, service_name>>] =
                                                    Some(credential_data)]
                        ELSE last_added
                   /\ UNCHANGED <<next_id, now, conc>>
          [] existing.kind = "None" ->
               LET credential == UserCredential(next_id, user_id, service_name,
                                                credential_type, encrypted)
               IN  /\ next_id <= MaxId
                   /\ rows' = rows \cup {credential}
                   /\ next_id' = next_id + 1
                   /\ last' = Call("add_credential", user_id, service_name,
                                   <<"validate", "encrypt", "select", "insert",
                                     "commit", "refresh">>,
                                   [kind |-> "row", row |-> credential,
                                    data |-> credential_data])
                   /\ last_added' = [last_added EXCEPT ![<<user_id, service_name>>] =
                                                           Some(credential_data)]
                   /\ UNCHANGED <<now, conc>>

\* Mutant of get_credential_decrypted: a successful fetch stamps last_used.
get_credential_decrypted_BumpsLastUsed(user_id, service_name) ==
    LET credential == get_credential(rows, user_id, service_name)
        plain == IF credential.kind = "row"
                 THEN decrypt_credential(credential.row.encrypted_credentials)
                 ELSE [ok |-> FALSE]
    IN  /\ rows' = CASE credential.kind # "row" -> rows
                     [] plain.ok -> LastUsedStmt(rows, user_id, service_name)
                     [] OTHER -> DeactivateStmt(rows, user_id, service_name)
        /\ last' = Call("get_credential_decrypted", user_id, service_name,
                        CASE credential.kind # "row" -> <<"select">>
                          [] plain.ok -> <<"select", "decrypt">>
                          [] OTHER -> <<"select", "decrypt", "update", "commit">>,
                        CASE credential.kind = "MultipleResultsFound" ->
                                [kind |-> "MultipleResultsFound"]
                          [] plain.ok -> [kind |-> "payload", data |-> plain.data]
                          [] OTHER -> [kind |-> "None"])
        /\ UNCHANGED <<next_id, now, last_added, conc>>

get_credential_decrypted(user_id, service_name) ==
    LET credential == get_credential(rows, user_id, service_name)
    IN  CASE credential.kind = "MultipleResultsFound" ->
               /\ last' = Call("get_credential_decrypted", user_id, service_name,
                               <<"select">>, [kind |-> "MultipleResultsFound"])
               /\ UNCHANGED <<rows, next_id, now, last_added, conc>>
          [] credential.kind = "None" ->
               /\ last' = Call("get_credential_decrypted", user_id, service_name,
                               <<"select">>, [kind |-> "None"])
               /\ UNCHANGED <<rows, next_id, now, last_added, conc>>
          [] credential.kind = "row" ->
               LET plain == decrypt_credential(credential.row.encrypted_credentials)
               IN  IF plain.ok
                   THEN /\ last' = Call("get_credential_decrypted", user_id, service_name,
                                        <<"select", "decrypt">>,
                                        [kind |-> "payload", data |-> plain.data])
                        /\ UNCHANGED <<rows, next_id, now, last_added, conc>>
                   ELSE /\ rows' = DeactivateStmt(rows, user_id, service_name)
                        /\ last' = Call("get_credential_decrypted", user_id, service_name,
                                        <<"select", "decrypt", "update", "commit">>,
                                        [kind |-> "None"])
                        /\ UNCHANGED <<next_id, now, last_added, conc>>

get_all_credentials(user_id, active_only) ==
    /\ \E l \in OrderByCreatedAtDesc(AllCredentialsStmt(rows, user_id, active_only)) :
          last' = [ op |-> "get_all_credentials", user_id |-> user_id,
                    active_only |-> active_only, calls |-> <<"select">>,
                    ret |-> [kind |-> "list", list |-> l] ]
    /\ UNCHANGED <<rows, next_id, now, last_added, conc>>

\* get_all_credentials(user_id, active_only=True), then the service_name of each.
get_services_with_credentials(user_id) ==
    /\ \E credentials \in OrderByCreatedAtDesc(AllCredentialsStmt(rows, user_id, TRUE)) :
          last' = [ op |-> "get_services_with_credentials", user_id |-> user_id,
                    calls |-> <<"select">>,
                    ret |-> [kind |-> "list",
                             list |-> [i \in DOMAIN credentials |->
                                          credentials[i].service_name]] ]
    /\ UNCHANGED <<rows, next_id, now, last_added, conc>>

remove_credential(user_id, service_name) ==
    /\ rows' = RemoveStmt(rows, user_id, service_name)
    /\ last' = Call("remove_credential", user_id, service_name,
                    <<"delete", "commit">>,
                    [kind |-> "bool", val |-> rowcount(rows, user_id, service_name) > 0])
    /\ UNCHANGED <<next_id, now, last_added, conc>>

deactivate_credential(user_id, service_name) ==
    /\ rows' = DeactivateStmt(rows, user_id, service_name)
    /\ last' = Call("deactivate_credential", user_id, service_name,
                    <<"update", "commit">>,
                    [kind |-> "bool", val |-> rowcount(rows, user_id, service_name) > 0])
    /\ UNCHANGED <<next_id, now, last_added, conc>>

update_last_used(user_id, service_name) ==
    /\ rows' = LastUsedStmt(rows, user_id, service_name)
    /\ last' = Call("update_last_used", user_id, service_name,
                    <<"update", "commit">>, [kind |-> "None"])
    /\ UNCHANGED <<next_id, now, last_added, conc>>

\* ------------------------------------------------------------- environment
\* The wall clock advances.
Tick ==
    /\ now < MaxClock
    /\ now' = now + 1
    /\ UNCHANGED <<rows, next_id, last, last_added, conc>>

\* Storage corruption or tampering: the token of an active row stops
\* authenticating (the token of an inactive row is never read).
CorruptCiphertext ==
    \E r \in rows :
        /\ r.is_active
        /\ r.encrypted_credentials.intact
        /\ rows' = (rows \ {r}) \cup
                   {[r EXCEPT !.encrypted_credentials.intact = FALSE]}
        /\ last' = [op |-> "corrupt", user_id |-> r.user_id,
                    service_name |-> r.service_name]
        /\ UNCHANGED <<next_id, now, last_added, conc>>

\* ------------------------------------------------------------- specifications
NextOn(P, D) ==
    \/ \E pr \in P, t \in CredentialTypes, d \in D :
          add_credential(pr[1], pr[2], t, d)
    \/ \E pr \in P : get_credential_decrypted(pr[1], pr[2])
    \/ \E pr \in P : remove_credential(pr[1], pr[2])
    \/ \E pr \in P : deactivate_credential(pr[1], pr[2])
    \/ \E pr \in P : update_last_used(pr[1], pr[2])
    \/ CorruptCiphertext

Next == NextOn(Pairs, Payloads)

\* Callers one at a time, within one reading of the clock.
Spec == Init /\ [][Next]_vars

\* The same with the clock advancing between calls.
SpecClock == Init /\ [][Next \/ Tick]_vars

\* The listings of the users of the pairs P.
ReadsOn(P) ==
    \/ \E user_id \in {pr[1] : pr \in P}, active_only \in BOOLEAN :
          get_all_credentials(user_id, active_only)
    \/ \E user_id \in {pr[1] : pr \in P} : get_services_with_credentials(user_id)

NextReads ==
    \/ Next
    \/ ReadsOn(Pairs)

\* Every repository method, the listings included, one call at a time.
SpecReads == Init /\ [][NextReads]_vars

\* ------------------------------------------------------------- concurrent add_credential
\* add_credential run by several callers, each in its own session and
\* transaction: the statements of one call interleave with those of the others,
\* and a write is seen by the other sessions once it is committed.
Frame(pc, user_id, service_name, credential_type, credential_data) ==
    [ pc |-> pc, user_id |-> user_id, service_name |-> service_name,
      credential_type |-> credential_type, credential_data |-> credential_data ]

\* Called; validated and encrypted: about to look the pair up.
AddCall(p, user_id, service_name, credential_type, credential_data) ==
    /\ proc[p].pc = "idle"
    /\ validate_credential_format(service_name, credential_data)
    /\ proc' = [proc EXCEPT ![p] = Frame("select", user_id, service_name,
                                         credential_type, credential_data)]
    /\ UNCHANGED <<rows, next_id, now, last, last_added, last_committed, boot, fsm>>

\* existing = await self.get_credential(user_id, service_name)
AddSelect(p) ==
    /\ proc[p].pc = "select"
    /\ LET existing == get_credential(rows, proc[p].user_id, proc[p].service_name)
       IN  proc' = [proc EXCEPT ![p] =
                       CASE existing.kind = "MultipleResultsFound" -> Idle
                         [] existing.kind = "row" -> [proc[p] EXCEPT !.pc = "update"]
                         [] existing.kind = "None" -> [proc[p] EXCEPT !.pc = "insert"]]
    /\ UNCHANGED <<rows, next_id, now, last, last_added, last_committed, boot, fsm>>

\* await self.session.execute(stmt): the UPDATE takes the rows of the pair that
\* are committed now, once no other open transaction has updated one of them.
AddExecuteUpdate(p) ==
    /\ proc[p].pc = "update"
    /\ LET matched == {r.id : r \in PairRows(rows, proc[p].user_id, proc[p].service_name)}
       IN  /\ \A q \in Procs \ {p} :
                 proc[q].pc = "commit_update" => proc[q].matched \cap matched = {}
           /\ proc' = [proc EXCEPT ![p] =
                          [pc |-> "commit_update", matched |-> matched,
                           updated_at |-> now] @@ proc[p]]
    /\ UNCHANGED <<rows, next_id, now, last, last_added, last_committed, boot, fsm>>

\* await self.session.commit() of the UPDATE
AddCommitUpdate(p) ==
    /\ proc[p].pc = "commit_update"
    /\ rows' = { IF r.id \in proc[p].matched
                 THEN [AddUpdateRow(r, proc[p].credential_type,
                                    encrypt_credential(proc[p].credential_data))
                         EXCEPT !.updated_at = Some(proc[p].updated_at)]
                 ELSE r : r \in rows }
    /\ last_committed' = [last_committed EXCEPT
                             ![<<proc[p].user_id, proc[p].service_name>>] =
                                 Some(proc[p].credential_data)]
    /\ proc' = [proc EXCEPT ![p] =
                   Frame("refetch", proc[p].user_id, proc[p].service_name,
                         proc[p].credential_type, proc[p].credential_data)]
    /\ UNCHANGED <<next_id, now, last, last_added, boot, fsm>>

\* return await self.get_credential(user_id, service_name)
AddRefetch(p) ==
    /\ proc[p].pc = "refetch"
    /\ proc' = [proc EXCEPT ![p] = Idle]
    /\ UNCHANGED <<rows, next_id, now, last, last_added, last_committed, boot, fsm>>

\* self.session.add(credential) and the INSERT that commit() flushes
AddInsert(p) ==
    /\ proc[p].pc = "insert"
    /\ next_id <= MaxId
    /\ next_id' = next_id + 1
    /\ proc' = [proc EXCEPT ![p] =
                   [pc |-> "commit_insert",
                    credential |->
                       UserCredential(next_id, proc[p].user_id,
                           proc[p].service_name, proc[p].credential_type,
                           encrypt_credential(proc[p].credential_data))] @@ proc[p]]
    /\ UNCHANGED <<rows, now, last, last_added, last_committed, boot, fsm>>

\* the COMMIT of the INSERT, then refresh(credential) and return
AddCommitInsert(p) ==
    /\ proc[p].pc = "commit_insert"
    /\ rows' = rows \cup {proc[p].credential}
    /\ last_committed' = [last_committed EXCEPT
                             ![<<proc[p].user_id, proc[p].service_name>>] =
                                 Some(proc[p].credential_data)]
    /\ proc' = [proc EXCEPT ![p] = Idle]
    /\ UNCHANGED <<next_id, now, last, last_added, boot, fsm>>

NextConc ==
    \E p \in Procs :
        \/ \E pr \in Pairs, t \in CredentialTypes, d \in Payloads :
              AddCall(p, pr[1], pr[2], t, d)
        \/ AddSelect(p)
        \/ AddExecuteUpdate(p)
        \/ AddCommitUpdate(p)
        \/ AddRefetch(p)
        \/ AddInsert(p)
        \/ AddCommitInsert(p)

\* Concurrent add_credential calls, interleaved statement by statement.
SpecConc == Init /\ [][NextConc]_vars

\* remove_credential of another session: its DELETE waits while an open
\* transaction holds an uncommitted UPDATE of a row of the pair.
RemoveBeside(user_id, service_name) ==
    /\ \A q \in Procs :
          proc[q].pc = "commit_update"
          => proc[q].matched \cap {r.id : r \in PairRows(rows, user_id, service_name)} = {}
    /\ remove_credential(user_id, service_name)

NextLost ==
    \/ NextConc
    \/ \E pr \in Pairs : RemoveBeside(pr[1], pr[2])

\* Concurrent add_credential calls, statement by statement, while
\* remove_credential calls of other sessions commit in between.
SpecLost == Init /\ [][NextLost]_vars

\* ------------------------------------------------------------- concurrent get_credential_decrypted
\* get_credential_decrypted run in its own session beside other callers: its
\* SELECT and the decryption, then, when the decryption failed, the UPDATE of
\* deactivate_credential; calls of other sessions commit in between.

\* The pair the readers and the other sessions work on.
HealPairs == { <<42, "osha_api">> }

\* credential = await self.get_credential(...) and cm.decrypt_credential(...):
\* returns when there is no active record or the token decrypts, goes on to
\* the deactivation when it does not.
GetSelect(p, user_id, service_name) ==
    /\ proc[p].pc = "idle"
    /\ LET credential == get_credential(rows, user_id, service_name)
       IN  CASE credential.kind = "MultipleResultsFound" ->
                  /\ last' = Call("get_credential_decrypted", user_id, service_name,
                                  <<"select">>, [kind |-> "MultipleResultsFound"])
                  /\ UNCHANGED proc
             [] credential.kind = "None" ->
                  /\ last' = Call("get_credential_decrypted", user_id, service_name,
                                  <<"select">>, [kind |-> "None"])
                  /\ UNCHANGED proc
             [] credential.kind = "row" ->
                  LET plain == decrypt_credential(credential.row.encrypted_credentials)
                  IN  IF plain.ok
                      THEN /\ last' = Call("get_credential_decrypted", user_id,
                                           service_name, <<"select", "decrypt">>,
                                           [kind |-> "payload", data |-> plain.data])
                           /\ UNCHANGED proc
                      ELSE /\ proc' = [proc EXCEPT ![p] =
                                          [pc |-> "deactivate", user_id |-> user_id,
                                           service_name |-> service_name,
                                           credential |-> credential.row]]
                           /\ UNCHANGED last
    /\ UNCHANGED <<rows, next_id, now, last_added, last_committed, boot, fsm>>

\* await self.deactivate_credential(user_id, service_name); return None
GetDeactivate(p) ==
    /\ proc[p].pc = "deactivate"
    /\ rows' = DeactivateStmt(rows, proc[p].user_id, proc[p].service_name)
    /\ last' = Call("get_credential_decrypted", proc[p].user_id, proc[p].service_name,
                    <<"select", "decrypt", "update", "commit">>, [kind |-> "None"])
    /\ proc' = [proc EXCEPT ![p] = Idle]
    /\ UNCHANGED <<next_id, now, last_added, last_committed, boot, fsm>>

NextHeal ==
    \/ \E p \in Procs, pr \in HealPairs : GetSelect(p, pr[1], pr[2])
    \/ \E p \in Procs : GetDeactivate(p)
    \/ \E pr \in HealPairs, t \in CredentialTypes, d \in Payloads :
          add_credential(pr[1], pr[2], t, d)
    \/ CorruptCiphertext

\* Readers of one pair, statement by statement, while the pair's credential
\* is stored again by another session and its token corrupted in storage.
SpecHeal == Init /\ [][NextHeal]_vars

\* ------------------------------------------------------------- OSHA tools
\* The users of the OSHA tools: two users with the service the tools read.
ToolPairs == { <<41, "osha_api">>, <<42, "osha_api">> }
\* The state argument of a tool: one the tools serve, one they refuse.
StateCodes == {"NJ", "TX"}
\* The HTTP status of the OSHA API's response.
Statuses == {200, 401, 429, 500}

\* OSHAConnector.search_inspections: the JSON of a 200 response, an Exception
\* for every other status.
search_inspections(status) ==
    IF status = 200 THEN [kind |-> "json"] ELSE [kind |-> "Exception"]

\* OSHAConnector.get_company_history: the statistics of the inspections found;
\* the Exception of search_inspections passes through.
get_company_history(status) ==
    LET results == search_inspections(status)
    IN  IF results.kind = "Exception" THEN results ELSE [kind |-> "history"]

\* OSHAConnector.format_company_report: the report as text; an Exception of
\* get_company_history is caught and returned as the text of an error.
format_company_report(status) ==
    LET data == get_company_history(status)
    IN  IF data.kind = "Exception"
        THEN [kind |-> "text", text |-> "error"]
        ELSE [kind |-> "text", text |-> "report"]

\* What get_credential_decrypted(user_id, service_name) returns and the table
\* it leaves, for a caller that goes on after it.
DecryptedFetch(rs, user_id, service_name) ==
    LET credential == get_credential(rs, user_id, service_name)
    IN  CASE credential.kind = "MultipleResultsFound" ->
               [rows |-> rs, ret |-> [kind |-> "MultipleResultsFound"]]
          [] credential.kind = "None" ->
               [rows |-> rs, ret |-> [kind |-> "None"]]
          [] credential.kind = "row" ->
               LET plain == decrypt_credential(credential.row.encrypted_credentials)
               IN  IF plain.ok
                   THEN [rows |-> rs, ret |-> [kind |-> "payload", data |-> plain.data]]
                   ELSE [rows |-> DeactivateStmt(rs, user_id, service_name),
                         ret |-> [kind |-> "None"]]

\* The record of a tool call: the outcome of its get_credential_decrypted, the
\* status of the remote response (NULL when no request was sent), the
\* repository and connector calls it made and what it returned or raised.
ToolCall(op, user_id, state, fetched, status, calls, ret) ==
    [ op |-> op, user_id |-> user_id, service_name |-> "osha_api", state |-> state,
      fetched |-> fetched, status |-> status, calls |-> calls, ret |-> ret ]

search_osha_violations(user_id, state, status) ==
    IF state \notin {"NJ", "NY"}
    THEN /\ last' = ToolCall("search_osha_violations", user_id, state, "none", NULL,
                             << >>, "unsupported state")
         /\ UNCHANGED <<rows, next_id, now, last_added, conc>>
    ELSE
    LET credential_data == DecryptedFetch(rows, user_id, "osha_api")
    IN  CASE credential_data.ret.kind = "MultipleResultsFound" ->
               /\ last' = ToolCall("search_osha_violations", user_id, state,
                                   "MultipleResultsFound", NULL,
                                   <<"get_credential_decrypted">>, "MultipleResultsFound")
               /\ UNCHANGED <<rows, next_id, now, last_added, conc>>
          [] credential_data.ret.kind = "None" ->
               /\ rows' = credential_data.rows
               /\ last' = ToolCall("search_osha_violations", user_id, state, "None", NULL,
                                   <<"get_credential_decrypted">>, "not configured")
               /\ UNCHANGED <<next_id, now, last_added, conc>>
          [] credential_data.ret.kind = "payload" ->
               LET report == format_company_report(status)
               IN  /\ rows' = LastUsedStmt(credential_data.rows, user_id, "osha_api")
                   /\ last' = ToolCall("search_osha_violations", user_id, state,
                                       "payload", Some(status),
                                       <<"get_credential_decrypted",
                                         "format_company_report", "update_last_used">>,
                                       report.text)
                   /\ UNCHANGED <<next_id, now, last_added, conc>>

get_osha_company_summary(user_id, state, status) ==
    IF state \notin {"NJ", "NY"}
    THEN /\ last' = ToolCall("get_osha_company_summary", user_id, state, "none", NULL,
                             << >>, "unsupported state")
         /\ UNCHANGED <<rows, next_id, now, last_added, conc>>
    ELSE
    LET credential_data == DecryptedFetch(rows, user_id, "osha_api")
    IN  CASE credential_data.ret.kind = "MultipleResultsFound" ->
               /\ last' = ToolCall("get_osha_company_summary", user_id, state,
                                   "MultipleResultsFound", NULL,
                                   <<"get_credential_decrypted">>, "MultipleResultsFound")
               /\ UNCHANGED <<rows, next_id, now, last_added, conc>>
          [] credential_data.ret.kind = "None" ->
               /\ rows' = credential_data.rows
               /\ last' = ToolCall("get_osha_company_summary", user_id, state, "None", NULL,
                                   <<"get_credential_decrypted">>, "not configured")
               /\ UNCHANGED <<next_id, now, last_added, conc>>
          [] credential_data.ret.kind = "payload" ->
               LET data == get_company_history(status)
               IN  IF data.kind = "Exception"
                   THEN /\ last' = ToolCall("get_osha_company_summary", user_id, state,
                                            "payload", Some(status),
                                            <<"get_credential_decrypted",
                                              "get_company_history">>, "error")
                        /\ UNCHANGED <<rows, next_id, now, last_added, conc>>
                   ELSE /\ rows' = LastUsedStmt(credential_data.rows, user_id, "osha_api")
                        /\ last' = ToolCall("get_osha_company_summary", user_id, state,
                                            "payload", Some(status),
                                            <<"get_credential_decrypted",
                                              "get_company_history", "update_last_used">>,
                                            "summary")
                        /\ UNCHANGED <<next_id, now, last_added, conc>>

NextTools ==
    \/ \E pr \in ToolPairs, t \in CredentialTypes, d \in Payloads :
          add_credential(pr[1], pr[2], t, d)
    \/ \E pr \in ToolPairs : deactivate_credential(pr[1], pr[2])
    \/ CorruptCiphertext
    \/ \E pr \in ToolPairs, state \in StateCodes, status \in Statuses :
          search_osha_violations(pr[1], state, status)
    \/ \E pr \in ToolPairs, state \in StateCodes, status \in Statuses :
          get_osha_company_summary(pr[1], state, status)

\* The OSHA tools called by two users, one call at a time, between additions,
\* deactivations and corruptions of their osha_api credentials.
SpecTools == Init /\ [][NextTools]_vars

\* ------------------------------------------------------------- the cipher on its own
\* The payloads handed to the cipher: every mapping of some of two field
\* names to two values, the empty mapping included.
CipherKeys == {"username", "password"}
CipherValues == {"x", "secret123"}
CipherPayloads ==
    UNION { [ks -> CipherValues] : ks \in SUBSET CipherKeys }
\* The pair the encrypted payloads are stored under: a service without a schema.
CipherPairs == { <<42, "my_service">> }

\* The strings a stored token can turn into: cut short, a value altered, or
\* the same bytes under a key that is not the process's key.  Fernet
\* authenticates none of them.
TamperedTokens(token) ==
    {[body |-> token.body, intact |-> FALSE]}
    \cup (IF token.body = << >> THEN {}
          ELSE { [body |-> SubSeq(token.body, 1, Len(token.body) - 1), intact |-> FALSE],
                 [body |-> [token.body EXCEPT ![1][2] = "tampered"], intact |-> FALSE] })

\* cm.encrypt_credential(credential_data)
Encrypt(credential_data) ==
    /\ last' = [ op |-> "encrypt_credential", data |-> credential_data,
                 token |-> encrypt_credential(credential_data) ]
    /\ UNCHANGED <<rows, next_id, now, last_added, conc>>

\* The token just produced is altered before it is read back.
Tamper ==
    /\ last.op = "encrypt_credential"
    /\ \E token \in TamperedTokens(last.token) :
          last' = [op |-> "tamper", data |-> last.data, token |-> token]
    /\ UNCHANGED <<rows, next_id, now, last_added, conc>>

\* cm.decrypt_credential(token) of the token at hand
Decrypt ==
    /\ last.op \in {"encrypt_credential", "tamper"}
    /\ last' = [ op |-> "decrypt_credential", data |-> last.data,
                 token |-> last.token, tampered |-> (last.op = "tamper"),
                 ret |-> decrypt_credential(last.token) ]
    /\ UNCHANGED <<rows, next_id, now, last_added, conc>>

NextCipher ==
    \/ \E d \in CipherPayloads : Encrypt(d)
    \/ Tamper
    \/ Decrypt
    \/ \E pr \in CipherPairs, t \in CredentialTypes, d \in Payloads :
          add_credential(pr[1], pr[2], t, d)
    \/ \E pr \in CipherPairs : get_credential_decrypted(pr[1], pr[2])
    \/ \E pr \in CipherPairs : deactivate_credential(pr[1], pr[2])

\* The cipher called directly, and through add_credential and
\* get_credential_decrypted on one pair.
SpecCipher == Init /\ [][NextCipher]_vars

\* ------------------------------------------------------------- process startup
\* CredentialRepository(session): takes the singleton cipher, building it on
\* first use; ok = FALSE is the ValueError of a missing key.
CredentialRepository(singleton, key) ==
    get_credential_manager(singleton, key)

\* The process before it starts: the key set in the environment or not, no
\* cipher built yet, the table empty.
InitStartup ==
    /\ InitStore
    /\ env_key \in {NULL, Some(EncryptionKey)}
    /\ credential_manager = NULL
    /\ phase = "starting"
    /\ getenv_calls = 0

\* Initialization reads the key once and builds the cipher; without a key
\* the process fails to start.
Startup ==
    /\ phase = "starting"
    /\ getenv_calls' = getenv_calls + getenv(credential_manager)
    /\ LET built == get_credential_manager(credential_manager, env_key)
       IN  IF built.ok
           THEN /\ credential_manager' = Some(built.cm)
                /\ phase' = "serving"
                /\ last' = [op |-> "startup", ret |-> [kind |-> "None"]]
           ELSE /\ phase' = "failed"
                /\ last' = [op |-> "startup", ret |-> [kind |-> "ValueError"]]
                /\ UNCHANGED credential_manager
    /\ UNCHANGED <<rows, next_id, now, last_added, proc, last_committed, env_key, fsm>>

\* A handler of the serving process constructs a repository and calls it.
Serve ==
    /\ phase = "serving"
    /\ CredentialRepository(credential_manager, env_key).ok
    /\ NextReads

NextStartup ==
    \/ Startup
    \/ Serve

\* The process from its start, with and without a configured key.
SpecStartup == InitStartup /\ [][NextStartup]_vars

\* ------------------------------------------------------------- several users
NextUsers ==
    \/ \E pr \in ToolPairs, t \in CredentialTypes, d \in Payloads :
          add_credential(pr[1], pr[2], t, d)
    \/ \E pr \in ToolPairs : deactivate_credential(pr[1], pr[2])
    \/ \E pr \in ToolPairs : remove_credential(pr[1], pr[2])
    \/ \E pr \in ToolPairs, active_only \in BOOLEAN :
          get_all_credentials(pr[1], active_only)
    \/ Tick

\* Two users adding, deactivating, removing and listing a credential of the same
\* service, with the clock advancing between their calls.
SpecUsers == Init /\ [][NextUsers]_vars

\* ------------------------------------------------------------- store, fetch, use
\* A call starts once time has passed since the call before it returned.
Elapsed == last.op = "init" \/ "elapsed" \in DOMAIN last

\* Time passes between the return of one call and the start of the next: a
\* later call reads a later clock.
Elapse ==
    /\ ~Elapsed
    /\ now + 1 < MaxCalls
    /\ now' = now + 1
    /\ last' = [elapsed |-> TRUE] @@ last
    /\ UNCHANGED <<rows, next_id, last_added, conc>>

NextScenario ==
    \/ /\ Elapsed
       /\ \/ \E pr \in ToolPairs, t \in CredentialTypes, d \in Payloads :
                add_credential(pr[1], pr[2], t, d)
          \/ \E pr \in ToolPairs : get_credential_decrypted(pr[1], pr[2])
          \/ \E pr \in ToolPairs : update_last_used(pr[1], pr[2])
          \/ \E pr \in ToolPairs, active_only \in BOOLEAN :
                get_all_credentials(pr[1], active_only)
    \/ Elapse

\* Two users storing a credential, fetching it, marking it used and listing
\* their records, each call at a later time than the one before.
SpecScenario == Init /\ [][NextScenario]_vars

\* ------------------------------------------------------------- payload shapes
\* The payloads checked against a schema: every mapping of some of two field
\* names, the empty mapping included.  For osha_api, whose schema is api_key,
\* they are the exact payload, one with an extra field, one with another
\* field instead, and the empty one.
SchemaKeys == {"api_key", "username"}
SchemaValues == {"abc123"}
SchemaPayloads ==
    UNION { [ks -> SchemaValues] : ks \in SUBSET SchemaKeys }

\* The declared field set of a service with a schema.
DeclaredFields(service_name) ==
    {formats[service_name][i] : i \in DOMAIN formats[service_name]}

NextSchema ==
    \/ \E pr \in Pairs, t \in CredentialTypes, d \in SchemaPayloads :
          add_credential(pr[1], pr[2], t, d)
    \/ \E pr \in Pairs : get_credential_decrypted(pr[1], pr[2])
    \/ \E pr \in Pairs : remove_credential(pr[1], pr[2])

\* Payloads of every shape stored for a service with a schema and for one
\* without, read back and removed.
SpecSchema == Init /\ [][NextSchema]_vars

\* ------------------------------------------------------------- several pairs
\* A pair, the same user's other service and another user's same service.
IsolationPairs == { <<42, "osha_api">>, <<42, "my_service">>, <<41, "osha_api">> }
\* One payload, which both services accept.
IsolationPayloads == { "api_key" :> "abc123" }

NextIsolation ==
    \/ \E pr \in IsolationPairs, t \in CredentialTypes, d \in IsolationPayloads :
          add_credential(pr[1], pr[2], t, d)
    \/ \E pr \in IsolationPairs : get_credential_decrypted(pr[1], pr[2])
    \/ \E pr \in IsolationPairs : remove_credential(pr[1], pr[2])
    \/ \E pr \in IsolationPairs : deactivate_credential(pr[1], pr[2])
    \/ \E pr \in IsolationPairs : update_last_used(pr[1], pr[2])

\* The methods that read or write one pair, called for three pairs in any
\* order, one call at a time.
SpecIsolation == Init /\ [][NextIsolation]_vars

\* ------------------------------------------------------------- the add-credential conversation
\* The bot's handlers of the add-credential flow in one user's chat, in the
\* order the router registers them.  A message text is the sequence of its
\* characters.

\* message.from_user.id
ChatUser == 42

\* SUPPORTED_SERVICES: the credential type and the fields of each service.
SUPPORTED_SERVICES ==
    [ osha_api       |-> [credential_type |-> "api_key", fields |-> <<"api_key">>],
      dol_efast      |-> [credential_type |-> "basic_auth",
                          fields |-> <<"username", "password">>],
      pacer          |-> [credential_type |-> "basic_auth",
                          fields |-> <<"username", "password">>],
      fec_api        |-> [credential_type |-> "api_key", fields |-> <<"api_key">>],
      opencorporates |-> [credential_type |-> "api_key", fields |-> <<"api_key">>] ]

\* The service ids a callback carries: a service of each credential type and
\* one the bot does not offer.
ServiceIds == {"osha_api", "dol_efast", "bogus"}

AddCredentialCommand ==
    <<"/", "a", "d", "d", "_", "c", "r", "e", "d", "e", "n", "t", "i", "a", "l">>
CancelText == <<"/", "c", "a", "n", "c", "e", "l">>
\* The texts the user sends: the two commands, an API key, and a user name
\* and password with a blank after the colon.
Texts ==
    { AddCredentialCommand, CancelText,
      <<"a", "b", "c", "1", "2", "3">>,
      <<"x", ":", " ", "p", "w">> }

\* Whether the database answers (a storage failure is any other exception).
Storage == {"up", "down"}

\* Command(name): the text is the command, alone or followed by arguments.
Command(text, command) ==
    /\ Len(text) >= Len(command)
    /\ SubSeq(text, 1, Len(command)) = command
    /\ Len(text) > Len(command) => text[Len(command) + 1] = " "

\* str.strip(): without the blanks at both ends.
strip(text) ==
    LET solid == {i \in DOMAIN text : text[i] # " "}
    IN  IF solid = {} THEN << >>
        ELSE SubSeq(text, CHOOSE i \in solid : \A j \in solid : i <= j,
                          CHOOSE i \in solid : \A j \in solid : j <= i)

\* str.split(':', 1): the text cut at its first colon, if it has one.
split(text) ==
    LET colons == {i \in DOMAIN text : text[i] = ":"}
    IN  IF colons = {} THEN <<text>>
        ELSE LET at == CHOOSE i \in colons : \A j \in colons : i <= j
             IN  <<SubSeq(text, 1, at - 1), SubSeq(text, at + 1, Len(text))>>

\* What add_credential(user_id, service_name, credential_type, credential_data)
\* returns or raises and the table it leaves, for a handler that goes on
\* after it; an Exception is a storage failure.
AddOutcome(rs, id, user_id, service_name, credential_type, credential_data, storage) ==
    IF ~validate_credential_format(service_name, credential_data)
    THEN [rows |-> rs, next_id |-> id, ret |-> [kind |-> "ValueError"]]
    ELSE IF storage = "down"
    THEN [rows |-> rs, next_id |-> id, ret |-> [kind |-> "Exception"]]
    ELSE
    LET encrypted == encrypt_credential(credential_data)
        existing == get_credential(rs, user_id, service_name)
    IN  CASE existing.kind = "MultipleResultsFound" ->
               [rows |-> rs, next_id |-> id, ret |-> [kind |-> "Exception"]]
          [] existing.kind = "row" ->
               LET updated == AddUpdateStmt(rs, user_id, service_name,
                                            credential_type, encrypted)
                   fetched == get_credential(updated, user_id, service_name)
               IN  [rows |-> updated, next_id |-> id,
                    ret |-> IF fetched.kind = "MultipleResultsFound"
                            THEN [kind |-> "Exception"] ELSE fetched]
          [] existing.kind = "None" ->
               LET credential == UserCredential(id, user_id, service_name,
                                                credential_type, encrypted)
               IN  [rows |-> rs \cup {credential}, next_id |-> id + 1,
                    ret |-> [kind |-> "row", row |-> credential]]

\* The record of a handler run: the message or callback it consumed, the
\* calls it made, the credential data it handed to add_credential (NULL when
\* it handed none) and how it ended.
Handled(op, text, service_id, calls, data, outcome) ==
    [ op |-> op, user_id |-> ChatUser, text |-> text, service_id |-> service_id,
      calls |-> calls, data |-> data, outcome |-> outcome ]

Waiting == Some("waiting_for_credential_data")

\* Mutant of Cleared: the state and its data are left as they were.
Cleared_KeepsState == [state |-> Waiting, data |-> fsm.data]

\* state.clear()
Cleared == [state |-> NULL, data |-> << >>]

\* @router.message(Command('add_credential')), in any state: shows the services.
cmd_add_credential(text) ==
    /\ Command(text, AddCredentialCommand)
    /\ last' = Handled("cmd_add_credential", text, NULL, <<"answer">>, NULL, "keyboard")
    /\ UNCHANGED <<rows, next_id, now, last_added, conc>>

\* @router.callback_query(F.data.startswith('cred_add_'))
process_service_selection(service_id) ==
    IF service_id \notin DOMAIN SUPPORTED_SERVICES
    THEN /\ last' = Handled("process_service_selection", NULL, Some(service_id),
                            <<"answer">>, NULL, "invalid service")
         /\ UNCHANGED <<rows, next_id, now, last_added, conc>>
    ELSE /\ fsm' = [state |-> Waiting,
                    data |-> ("service_id" :> service_id) @@ fsm.data]
         /\ last' = Handled("process_service_selection", NULL, Some(service_id),
                            <<"update_data", "set_state", "edit_text", "answer">>,
                            NULL, "waiting")
         /\ UNCHANGED <<rows, next_id, now, last_added, proc, last_committed, boot>>

\* @router.message(CredentialStates.waiting_for_credential_data): every message
\* in that state that no handler registered before it has taken.
process_credential_data(text, storage) ==
    /\ fsm.state = Waiting
    /\ ~Command(text, AddCredentialCommand)
    /\ LET service_id == IF "service_id" \in DOMAIN fsm.data
                         THEN Some(fsm.data["service_id"]) ELSE NULL
           known == service_id # NULL /\ service_id[1] \in DOMAIN SUPPORTED_SERVICES
           credential_type == IF known
                              THEN SUPPORTED_SERVICES[service_id[1]].credential_type
                              ELSE "none"
           parts == split(strip(text))
           credential_data ==
               CASE credential_type = "api_key" -> "api_key" :> strip(text)
                 [] credential_type = "basic_auth" /\ Len(parts) = 2 ->
                       ("username" :> strip(parts[1])) @@ ("password" :> strip(parts[2]))
                 [] OTHER -> << >>
           added == AddOutcome(rows, next_id, ChatUser, service_id[1], credential_type,
                               credential_data, storage)
       IN  CASE ~known ->
                  /\ fsm' = Cleared
                  /\ last' = Handled("process_credential_data", text, service_id,
                                     <<"answer", "clear">>, NULL, "invalid service")
                  /\ UNCHANGED <<rows, next_id>>
             [] known /\ credential_type = "basic_auth" /\ Len(parts) # 2 ->
                  /\ last' = Handled("process_credential_data", text, service_id,
                                     <<"answer">>, NULL, "invalid format")
                  /\ UNCHANGED <<rows, next_id, fsm>>
             [] OTHER ->
                  /\ added.next_id <= MaxId + 1
                  /\ rows' = added.rows
                  /\ next_id' = added.next_id
                  /\ CASE added.ret.kind = "ValueError" ->
                            /\ last' = Handled("process_credential_data", text, service_id,
                                               <<"delete", "add_credential", "answer">>,
                                               Some(credential_data), "validation error")
                            /\ UNCHANGED fsm
                       [] added.ret.kind = "Exception" ->
                            /\ fsm' = Cleared
                            /\ last' = Handled("process_credential_data", text, service_id,
                                               <<"delete", "add_credential", "answer",
                                                 "clear">>,
                                               Some(credential_data), "storage failure")
                       [] OTHER ->
                            /\ fsm' = Cleared
                            /\ last' = Handled("process_credential_data", text, service_id,
                                               <<"delete", "add_credential", "answer",
                                                 "clear">>,
                                               Some(credential_data), "stored")
    /\ UNCHANGED <<now, last_added, proc, last_committed, boot>>

NextBot ==
    \/ \E text \in Texts : cmd_add_credential(text)
    \/ \E service_id \in ServiceIds : process_service_selection(service_id)
    \/ \E text \in Texts, storage \in Storage : process_credential_data(text, storage)

\* One user's chat with the bot: /add_credential, the choice of a service and
\* the messages sent while the bot waits for the credential.
SpecBot == Init /\ [][NextBot]_vars

\* ------------------------------------------------------------- the lazy singleton
\* The sources as they stand: no step of the process builds the cipher before
\* the first handler constructs a CredentialRepository.

\* The serving process before the first construction, with the key set in
\* its environment or not.
InitLazy ==
    /\ InitStore
    /\ env_key \in {NULL, Some(EncryptionKey)}
    /\ credential_manager = NULL
    /\ phase = "serving"
    /\ getenv_calls = 0

\* A handler runs CredentialRepository(session): self.cm is the singleton,
\* which get_credential_manager() builds and keeps only when CredentialManager()
\* does not raise.
NewCredentialRepository ==
    /\ getenv_calls + getenv(credential_manager) <= MaxGetenv
    /\ getenv_calls' = getenv_calls + getenv(credential_manager)
    /\ LET built == CredentialRepository(credential_manager, env_key)
       IN  IF built.ok
           THEN /\ credential_manager' = Some(built.cm)
                /\ last' = [op |-> "CredentialRepository",
                            ret |-> [kind |-> "CredentialRepository", cm |-> built.cm]]
           ELSE /\ last' = [op |-> "CredentialRepository",
                            ret |-> [kind |-> "ValueError"]]
                /\ UNCHANGED credential_manager
    /\ UNCHANGED <<rows, next_id, now, last_added, proc, last_committed, env_key,
                   phase, fsm>>

\* A handler constructs a repository; one that has its repository calls it.
NextLazy ==
    \/ NewCredentialRepository
    \/ /\ credential_manager # NULL
       /\ \/ \E pr \in Pairs, t \in CredentialTypes, d \in Payloads :
                add_credential(pr[1], pr[2], t, d)
          \/ \E pr \in Pairs : get_credential_decrypted(pr[1], pr[2])
          \/ \E pr \in Pairs : deactivate_credential(pr[1], pr[2])
          \/ \E pr \in Pairs : remove_credential(pr[1], pr[2])

\* Handlers of a process that builds its cipher on first use.
SpecLazy == InitLazy /\ [][NextLazy]_vars

\* ------------------------------------------------------------- properties
\* What get_all_credentials(user_id, active_only) lists for a service.
Listed(rs, user_id, service_name, active_only) ==
    {r \in AllCredentialsStmt(rs, user_id, active_only) : r.service_name = service_name}

\* The pair has exactly one active row, and its token fails decryption.
ActiveRecordCorrupted(rs, user_id, service_name) ==
    /\ Cardinality(ActiveRows(rs, user_id, service_name)) = 1
    /\ \A r \in ActiveRows(rs, user_id, service_name) :
          ~decrypt_credential(r.encrypted_credentials).ok

\* The rows with updated_at blanked: equality of every other column.
IgnoringUpdatedAt(rs) == {[r EXCEPT !.updated_at = NULL] : r \in rs}

\* C1: after any sequence of calls made one at a time, every (user_id,
\* service_name) pair has at most one row with is_active = true.
AtMostOneActivePerPair ==
    \A pr \in AllPairs : Cardinality(ActiveRows(rows, pr[1], pr[2])) <= 1

\* C2: once all concurrent add_credential calls have completed, every pair
\* some call committed to has exactly one active row, and that row holds
\* the payload of the call that committed last.
ConcurrentAddsLastWriterWins ==
    (\A p \in Procs : proc[p].pc = "idle") =>
        \A pr \in AllPairs :
            last_committed[pr] # NULL =>
                /\ Cardinality(ActiveRows(rows, pr[1], pr[2])) = 1
                /\ \A r \in ActiveRows(rows, pr[1], pr[2]) :
                      /\ decrypt_credential(r.encrypted_credentials).ok
                      /\ decrypt_credential(r.encrypted_credentials).data
                            = last_committed[pr][1]

\* C3: get_credential_decrypted(u, s) does not raise; it returns nothing or
\* the payload of the most recent successful add_credential(u, s), and it
\* returns that payload whenever the pair has an active row whose token decrypts.
DecryptedReadReturnsLatestAdd ==
    last.op = "get_credential_decrypted" =>
        LET pr == <<last.user_id, last.service_name>>
        IN  /\ last.ret.kind \in {"None", "payload"}
            /\ last.ret.kind = "payload" => last_added[pr] = Some(last.ret.data)
            /\ (\E r \in ActiveRows(rows, pr[1], pr[2]) :
                   decrypt_credential(r.encrypted_credentials).ok)
               => last.ret.kind = "payload"

\* C4: when the active record of (u, s) holds a token that fails decryption,
\* get_credential_decrypted(u, s) returns nothing, and afterwards the pair has
\* no active row, so get_all_credentials(u, active_only=True) does not list s.
CorruptReadSelfHeals ==
    [][\A pr \in Pairs :
          (/\ ActiveRecordCorrupted(rows, pr[1], pr[2])
           /\ get_credential_decrypted(pr[1], pr[2]))
          => /\ last'.ret.kind = "None"
             /\ ActiveRows(rows', pr[1], pr[2]) = {}
             /\ PairRows(rows', pr[1], pr[2]) # {}
             /\ Listed(rows', pr[1], pr[2], TRUE) = {}]_vars

\* C4 witness: a read has just failed to decrypt the active record of a pair,
\* returned nothing and left the pair inactive.
CorruptReadSelfHealsWitness ==
    /\ last.op = "get_credential_decrypted"
    /\ last.before = "active"
    /\ last.calls = <<"select", "decrypt", "update", "commit">>
    /\ last.ret.kind = "None"
    /\ Lifecycle(rows, last.user_id, last.service_name) = "inactive"

\* C5: for a pair with an active record, deactivate_credential(u, s) followed
\* by add_credential(u, s, type, p) yields an active record whose decrypted
\* payload is p, and get_all_credentials(u, active_only=True) lists s exactly once.
DeactivateThenAddReactivates ==
    [][\A pr \in Pairs, t \in CredentialTypes, d \in Payloads :
          (/\ last.op = "deactivate_credential"
           /\ last.user_id = pr[1] /\ last.service_name = pr[2]
           /\ last.before = "active"
           /\ validate_credential_format(pr[2], d)
           /\ add_credential(pr[1], pr[2], t, d))
          => /\ last'.ret.kind = "row"
             /\ Cardinality(Listed(rows', pr[1], pr[2], TRUE)) = 1
             /\ \A r \in Listed(rows', pr[1], pr[2], TRUE) :
                   /\ decrypt_credential(r.encrypted_credentials).ok
                   /\ decrypt_credential(r.encrypted_credentials).data = d]_vars

\* C5 witness: add_credential has just returned a record for a pair that a
\* deactivation had left inactive; the deactivated row is still stored.
DeactivateThenAddWitness ==
    /\ last.op = "add_credential"
    /\ last.before = "inactive"
    /\ last.ret.kind = "row"
    /\ \E r \in PairRows(rows, last.user_id, last.service_name) : ~r.is_active
    /\ \E r \in PairRows(rows, last.user_id, last.service_name) : r.is_active

\* C6: there is at most one stored row, active or not, per (user_id,
\* service_name): add_credential on a pair whose only row is inactive
\* updates that row instead of inserting a second one.
AtMostOneRowPerPair ==
    \A pr \in AllPairs : Cardinality(PairRows(rows, pr[1], pr[2])) <= 1

\* C7: for a pair with a record, remove_credential(u, s) returns true and
\* get_all_credentials(u, active_only) then lists no row of s for either
\* value of active_only; a remove_credential(u, s) right after a
\* remove_credential(u, s) returns false.
RemoveTwiceTrueThenFalse ==
    [][\A pr \in Pairs :
          remove_credential(pr[1], pr[2])
          => /\ PairRows(rows, pr[1], pr[2]) # {} => last'.ret.val = TRUE
             /\ \A active_only \in BOOLEAN :
                   Listed(rows', pr[1], pr[2], active_only) = {}
             /\ (/\ last.op = "remove_credential"
                 /\ last.user_id = pr[1] /\ last.service_name = pr[2])
                => last'.ret.val = FALSE]_vars

\* C7 witness: remove_credential has just returned true for a pair that had a
\* record, while the user's other service is still stored.
RemoveTwiceWitness ==
    /\ last.op = "remove_credential"
    /\ last.before # "absent"
    /\ last.ret.val = TRUE
    /\ PairRows(rows, last.user_id, last.service_name) = {}
    /\ rows # {}

\* C8 as stated: for a pair with an active record, a deactivate_credential(u, s)
\* right after a deactivate_credential(u, s) that returned true returns false
\* and leaves the table unchanged.
DeactivateTwiceTrueThenFalse ==
    [][\A pr \in Pairs :
          (/\ last.op = "deactivate_credential"
           /\ last.user_id = pr[1] /\ last.service_name = pr[2]
           /\ last.before = "active"
           /\ last.ret.val = TRUE
           /\ deactivate_credential(pr[1], pr[2]))
          => /\ last'.ret.val = FALSE
             /\ rows' = rows]_vars

\* C8 as amended: deactivate_credential(u, s) returns true exactly when the
\* pair has a row, active or not; so the first call on a pair with an active
\* record returns true, and every further call while the pair stays inactive
\* (no add_credential or remove_credential in between) returns true again,
\* keeps every row of the pair inactive and changes no column but updated_at.
DeactivateReturnsRowExisted ==
    [][\A pr \in Pairs :
          deactivate_credential(pr[1], pr[2])
          => /\ last'.ret.val = (Lifecycle(rows, pr[1], pr[2]) # "absent")
             /\ ActiveRows(rows', pr[1], pr[2]) = {}
             /\ Lifecycle(rows, pr[1], pr[2]) = "inactive"
                => /\ last'.ret.val = TRUE
                   /\ IgnoringUpdatedAt(rows') = IgnoringUpdatedAt(rows)]_vars

\* C8 witness: deactivate_credential has just returned true for a pair that
\* was already inactive.
DeactivateAgainWitness ==
    /\ last.op = "deactivate_credential"
    /\ last.before = "inactive"
    /\ last.ret.val = TRUE
    /\ Lifecycle(rows, last.user_id, last.service_name) = "inactive"

\* C9: add_credential for a service with a declared schema and a payload
\* missing a required field fails with the validation error before
\* encrypting or touching the table, and no row of any pair changes.
InvalidPayloadChangesNothing ==
    [][\A pr \in Pairs, t \in CredentialTypes, d \in Payloads :
          (/\ pr[2] \in DOMAIN formats
           /\ \E i \in DOMAIN formats[pr[2]] : formats[pr[2]][i] \notin DOMAIN d
           /\ add_credential(pr[1], pr[2], t, d))
          => /\ last'.ret.kind = "ValueError"
             /\ last'.calls = <<"validate">>
             /\ rows' = rows
             /\ next_id' = next_id]_vars

\* C9 witness: add_credential has just been refused for a pair that has an
\* active record, with another row stored besides.
InvalidPayloadWitness ==
    /\ last.op = "add_credential"
    /\ last.ret.kind = "ValueError"
    /\ last.before = "active"
    /\ Cardinality(rows) >= 2

\* C10: a pair's lifecycle state changes only absent -> active and
\* inactive -> active on add_credential, active -> inactive on
\* deactivate_credential or on a get_credential_decrypted whose decrypt
\* fails, and any state -> absent on remove_credential, each on that pair.
LifecycleTransitions ==
    [][\A pr \in AllPairs :
          LET from == Lifecycle(rows, pr[1], pr[2])
              to   == Lifecycle(rows', pr[1], pr[2])
              on(op) == /\ last'.op = op
                        /\ last'.user_id = pr[1]
                        /\ last'.service_name = pr[2]
          IN  from # to =>
                \/ /\ from \in {"absent", "inactive"} /\ to = "active"
                   /\ on("add_credential")
                \/ /\ from = "active" /\ to = "inactive"
                   /\ \/ on("deactivate_credential")
                      \/ /\ on("get_credential_decrypted")
                         /\ last'.calls = <<"select", "decrypt", "update", "commit">>
                \/ /\ to = "absent"
                   /\ on("remove_credential")]_vars

\* C10 witness: a pair that has been absent, active and inactive is active
\* again after add_credential.
LifecycleWitness ==
    /\ last.op = "add_credential"
    /\ last.before = "inactive"
    /\ Lifecycle(rows, last.user_id, last.service_name) = "active"

\* C11 as stated: remove_credential(u, s) deletes the active record of the pair
\* and returns true exactly when a row was removed; when the pair has no
\* active record it returns false and leaves the table unchanged.
RemoveFalseWithoutActiveRecord ==
    [][\A pr \in Pairs :
          remove_credential(pr[1], pr[2])
          => /\ last'.ret.kind = "bool"
             /\ last'.ret.val = (rows' # rows)
             /\ ActiveRows(rows', pr[1], pr[2]) = {}
             /\ ActiveRows(rows, pr[1], pr[2]) = {}
                => /\ last'.ret.val = FALSE
                   /\ rows' = rows]_vars

\* C11 as amended: remove_credential(u, s) deletes every row of the pair,
\* active or not, leaves the rows of the other pairs as they are and returns
\* true exactly when a row was removed; it returns false, without error and
\* without changing the table, exactly when the pair has no row at all, so
\* for a pair whose rows are all inactive it deletes them and returns true.
RemoveReturnsRowRemoved ==
    [][\A pr \in Pairs :
          remove_credential(pr[1], pr[2])
          => /\ last'.ret.kind = "bool"
             /\ last'.ret.val = (rows' # rows)
             /\ PairRows(rows', pr[1], pr[2]) = {}
             /\ rows' \subseteq rows
             /\ \A r \in rows :
                   (r.user_id # pr[1] \/ r.service_name # pr[2]) => r \in rows'
             /\ Lifecycle(rows, pr[1], pr[2]) = "absent"
                => last'.ret.val = FALSE /\ rows' = rows
             /\ Lifecycle(rows, pr[1], pr[2]) = "inactive"
                => last'.ret.val = TRUE /\ rows' # rows]_vars

\* C11 witness: remove_credential has just returned true for a pair whose
\* rows were all inactive, and the pair has no row left.
RemoveInactiveWitness ==
    /\ last.op = "remove_credential"
    /\ last.before = "inactive"
    /\ last.ret.val = TRUE
    /\ Lifecycle(rows, last.user_id, last.service_name) = "absent"

\* C12: get_all_credentials, get_services_with_credentials,
\* get_credential_decrypted on a pair with no active record and
\* get_credential_decrypted that returns the payload all leave every column of
\* every row as it was (last_used included) and insert or delete nothing.
ReadsWriteNothing ==
    [][(\/ last'.op \in {"get_all_credentials", "get_services_with_credentials"}
        \/ /\ last'.op = "get_credential_decrypted"
           /\ \/ ActiveRows(rows, last'.user_id, last'.service_name) = {}
              \/ last'.ret.kind = "payload")
       => rows' = rows /\ next_id' = next_id]_vars

\* C12 witness: get_credential_decrypted has just returned the payload of a
\* record that was used before, beside another stored row.
ReadsWriteNothingWitness ==
    /\ last.op = "get_credential_decrypted"
    /\ last.ret.kind = "payload"
    /\ \E r \in ActiveRows(rows, last.user_id, last.service_name) : r.last_used # NULL
    /\ Cardinality(rows) >= 2

\* C13: what add_credential and get_all_credentials return carries metadata
\* only: no returned record has an encrypted_credentials field.
ReturnsOnlyMetadata ==
    /\ (last.op = "add_credential" /\ last.ret.kind = "row")
       => "encrypted_credentials" \notin DOMAIN last.ret.row
    /\ last.op = "get_all_credentials"
       => \A i \in DOMAIN last.ret.list :
             "encrypted_credentials" \notin DOMAIN last.ret.list[i]

\* C14: search_osha_violations and get_osha_company_summary call
\* update_last_used only after get_credential_decrypted returned a payload and
\* the remote call answered with success; a remote call that failed is never
\* followed by update_last_used.
LastUsedOnlyAfterRemoteSuccess ==
    (/\ last.op \in {"search_osha_violations", "get_osha_company_summary"}
     /\ \E i \in DOMAIN last.calls : last.calls[i] = "update_last_used")
    => /\ last.fetched = "payload"
       /\ last.status = Some(200)

\* C15: a row's last_used changes only by update_last_used on the row's own
\* pair, and only while the row is active: add_credential,
\* deactivate_credential and reads never change it, and the last_used of an
\* inactive row is never changed.
LastUsedOnlyByUpdateOnActive ==
    [][\A r \in rows, q \in rows' :
          (q.id = r.id /\ q.last_used # r.last_used)
          => /\ last'.op = "update_last_used"
             /\ last'.user_id = r.user_id
             /\ last'.service_name = r.service_name
             /\ r.is_active]_vars

\* C16: decrypt_credential(encrypt_credential(p)) = p for every payload p,
\* and a get_credential_decrypted(u, s) right after an add_credential(u, s, t, p)
\* that returned a record returns p.
CipherRoundTrip ==
    [][/\ (last'.op = "decrypt_credential" /\ ~last'.tampered)
          => last'.ret = [ok |-> TRUE, data |-> last'.data]
       /\ \A pr \in CipherPairs :
             (/\ last.op = "add_credential"
              /\ last.user_id = pr[1] /\ last.service_name = pr[2]
              /\ last.ret.kind = "row"
              /\ get_credential_decrypted(pr[1], pr[2]))
             => last'.ret = [kind |-> "payload", data |-> last.ret.data]]_vars

\* C16 witness: a payload of two fields has just come back from decrypting
\* its own token.
CipherRoundTripWitness ==
    /\ last.op = "decrypt_credential"
    /\ ~last.tampered
    /\ last.ret.ok
    /\ DOMAIN last.ret.data = CipherKeys
    /\ last.ret.data["username"] # last.ret.data["password"]

ListsOwnRecordsNewestFirst ==
    last.op = "get_all_credentials"
    => LET l == last.ret.list
           own == {r \in rows : /\ r.user_id = last.user_id
                                /\ (last.active_only => r.is_active)}
       IN  /\ {l[i] : i \in DOMAIN l} = own
           /\ Len(l) = Cardinality(own)
           /\ \A i, j \in DOMAIN l : i < j => l[i].created_at >= l[j].created_at
           /\ \A i \in DOMAIN l : l[i].user_id = last.user_id

\* C19 witness: get_all_credentials has just returned the one row of a user
\* while a row of another user, created earlier, is stored as well.
ListsOwnRecordsWitness ==
    /\ last.op = "get_all_credentials"
    /\ Len(last.ret.list) = 1
    /\ \E r \in rows : /\ r.user_id # last.user_id
                       /\ r.is_active
                       /\ r.created_at < last.ret.list[1].created_at

\* C20: get_services_with_credentials(u) returns each service name for which
\* user u has an active row exactly once and no other name, and it does not
\* call decrypt.
ServicesListedOnce ==
    last.op = "get_services_with_credentials"
    => LET l == last.ret.list
       IN  /\ \A s \in Services :
                 ActiveRows(rows, last.user_id, s) # {}
                 => Cardinality({i \in DOMAIN l : l[i] = s}) = 1
           /\ \A i \in DOMAIN l : ActiveRows(rows, last.user_id, l[i]) # {}
           /\ \A i \in DOMAIN last.calls : last.calls[i] # "decrypt"

\* C21: update_last_used(u, s) on a pair with no row returns without error and
\* leaves the whole table unchanged; on a pair with a row it sets last_used of
\* the rows of that pair and changes no other column of them (not is_active,
\* the ciphertext, the type, created_at or updated_at), no row of another
\* pair, and it inserts and deletes nothing.
UpdateLastUsedTouchesOnlyLastUsed ==
    [][last'.op = "update_last_used"
       => /\ last'.ret.kind = "None"
          /\ next_id' = next_id
          /\ PairRows(rows, last'.user_id, last'.service_name) = {} => rows' = rows
          /\ {q.id : q \in rows'} = {r.id : r \in rows}
          /\ Cardinality(rows') = Cardinality(rows)
          /\ \A r \in rows, q \in rows' :
                q.id = r.id
                => IF r.user_id = last'.user_id /\ r.service_name = last'.service_name
                   THEN /\ q.last_used = Some(now)
                        /\ [q EXCEPT !.last_used = r.last_used] = r
                   ELSE q = r]_vars

\* C21 witness: update_last_used has just stamped the row of a pair that had
\* been updated by a second add_credential, beside a row of another pair that
\* was never used.
UpdateLastUsedWitness ==
    /\ last.op = "update_last_used"
    /\ last.before = "active"
    /\ \E r \in PairRows(rows, last.user_id, last.service_name) :
          r.last_used # NULL /\ r.updated_at # NULL
    /\ \E r \in rows : r.service_name # last.service_name /\ r.last_used = NULL

RejectsEveryOtherKeySet ==
    (/\ last.op = "add_credential"
     /\ last.service_name \in DOMAIN formats
     /\ DOMAIN last.ret.data # DeclaredFields(last.service_name))
    => last.ret.kind = "ValueError"

\* C24: for a service name with no entry in the schema table,
\* validate_credential_format accepts every payload, the empty mapping
\* included, and add_credential never raises the validation error.
UnknownServiceAcceptsAll ==
    /\ \A s \in Services \ DOMAIN formats, d \in SchemaPayloads :
          validate_credential_format(s, d)
    /\ (last.op = "add_credential" /\ last.service_name \notin DOMAIN formats)
       => /\ last.ret.kind # "ValueError"
          /\ \E i \in DOMAIN last.calls : last.calls[i] = "encrypt"

\* C24 witness: add_credential has just stored the empty mapping for a
\* service without a schema.
UnknownServiceWitness ==
    /\ last.op = "add_credential"
    /\ last.service_name \notin DOMAIN formats
    /\ DOMAIN last.ret.data = {}
    /\ last.ret.kind = "row"
    /\ last.ret.row \in rows

ReadDeactivatesOnlyUndecryptable ==
    [][\A p \in Procs :
          (proc[p].pc = "deactivate" /\ proc'[p].pc = "idle")
          => \A r \in rows, q \in rows' :
                (q.id = r.id /\ r.is_active /\ ~q.is_active)
                => ~decrypt_credential(r.encrypted_credentials).ok]_vars

\* C27: an add_credential(u, s, t, p) that returns without raising returns a
\* record, never nothing, and its own write has committed an active record of
\* (u, s) holding p, also when a remove_credential(u, s) commits between its
\* lookup and its update.
AddReturnsTheRecordItWrote ==
    [][\A p \in Procs :
          /\ (proc[p].pc = "refetch" /\ proc'[p].pc = "idle")
             => LET fetched == get_credential(rows, proc[p].user_id, proc[p].service_name)
                IN  fetched.kind # "MultipleResultsFound" => fetched.kind = "row"
          /\ (proc[p].pc \in {"commit_update", "commit_insert"} /\ proc'[p].pc # proc[p].pc)
             => \E r \in ActiveRows(rows', proc[p].user_id, proc[p].service_name) :
                   r.encrypted_credentials = encrypt_credential(proc[p].credential_data)]_vars

\* A get_credential_decrypted whose decryption failed.
DecryptFailed(call) ==
    /\ call.op = "get_credential_decrypted"
    /\ \E i \in DOMAIN call.calls : call.calls[i] = "decrypt"
    /\ call.ret.kind = "None"

\* C28: after a get_credential_decrypted(u, s) whose decryption failed, every
\* later get_credential_decrypted(u, s) with no add_credential(u, s) in
\* between returns nothing, without calling decrypt and without writing.  The
\* failed read leaves the pair without an active row, only add_credential on
\* the pair gives it an active row again, and a read of a pair without an
\* active row returns nothing after its SELECT alone; so does the read that
\* directly follows the failed one.
DoomedDecryptNotRetried ==
    [][/\ \A pr \in Pairs :
             (ActiveRows(rows, pr[1], pr[2]) = {} /\ ActiveRows(rows', pr[1], pr[2]) # {})
             => /\ last'.op = "add_credential"
                /\ last'.user_id = pr[1] /\ last'.service_name = pr[2]
       /\ last'.op = "get_credential_decrypted"
          => /\ DecryptFailed(last')
                => ActiveRows(rows', last'.user_id, last'.service_name) = {}
             /\ (\/ ActiveRows(rows, last'.user_id, last'.service_name) = {}
                 \/ /\ DecryptFailed(last)
                    /\ last.user_id = last'.user_id
                    /\ last.service_name = last'.service_name)
                => /\ last'.ret.kind = "None"
                   /\ last'.calls = <<"select">>
                   /\ rows' = rows]_vars

\* C28 witness: get_credential_decrypted has just returned nothing after its
\* SELECT alone, for a pair whose record holds a token that fails decryption
\* and has been deactivated.
DoomedDecryptWitness ==
    /\ last.op = "get_credential_decrypted"
    /\ last.before = "inactive"
    /\ last.calls = <<"select">>
    /\ last.ret.kind = "None"
    /\ \E r \in PairRows(rows, last.user_id, last.service_name) :
          ~r.is_active /\ ~decrypt_credential(r.encrypted_credentials).ok

\* C29: while the conversation waits for the credential data, a message with
\* the text /cancel aborts the flow: add_credential is not called with the
\* text of that message as credential data, and the conversation leaves the
\* waiting state.
CancelAbortsTheFlow ==
    (last.op = "process_credential_data" /\ last.text = CancelText)
    => /\ \A i \in DOMAIN last.calls : last.calls[i] # "add_credential"
       /\ fsm.state # Waiting

\* C30: every message process_credential_data consumes has its deletion
\* attempted before the handler returns, on every path: stored, validation
\* failure, storage failure and invalid username:password format.
ConsumedMessageDeleted ==
    last.op = "process_credential_data"
    => \E i \in DOMAIN last.calls : last.calls[i] = "delete"

KeyReadAtMostOnce ==
    /\ getenv_calls <= 1
    /\ (last.op = "CredentialRepository" /\ last.ret.kind = "CredentialRepository")
       => credential_manager = Some(last.ret.cm)

====
